---- MODULE Spec2Model ----
(***************************************************************************)
(* Hierarchical evaluation metrics of sklearn_hierarchical_classification  *)
(* (metrics.py): fill_ancestors, h_precision_score, h_recall_score and     *)
(* h_fbeta_score, over a class hierarchy graph and binary label matrices.  *)
(*                                                                         *)
(* A call is one action.  The result of the last call (a returned matrix,  *)
(* a returned number, or the exception it raised) is kept in ret together  *)
(* with the arguments the call was given.                                  *)
(***************************************************************************)
EXTENDS Integers, Sequences, FiniteSets, TLC

\* Bounds of the model.
NumNodes == 3
NumRows == 1
MaxBeta == 2

\* The ROOT sentinel.  In the package it is a string constant, so it is not
\* usable as a column index; here it is a value outside the node ids 0..n-1.
ROOT == -1

Nodes == 0 .. (NumNodes - 1)
AllNodes == Nodes \cup {ROOT}
Rows == 1 .. NumRows

VARIABLES
    graph,     \* the class hierarchy: [nodes: insertion order, edges: set of <<parent, child>>]
    lastKey,   \* per target, the last key of its distances dict (see ancestors)
    y_true,    \* caller's matrix (the y of a direct fill_ancestors call)
    y_pred,    \* caller's second matrix
    ret        \* the last call: operation, arguments, outcome

vars == <<graph, lastKey, y_true, y_pred, ret>>

----------------------------------------------------------------------------
\* Matrices: y[r][c] for r in Rows and c in 0 .. ncols-1.

Cols(y) == DOMAIN y[1]
Matrices(ncols) == [Rows -> [0 .. (ncols - 1) -> {0, 1}]]
count_nonzero(y) == Cardinality({rc \in Rows \X Cols(y) : y[rc[1]][rc[2]] # 0})

----------------------------------------------------------------------------
\* The graph and the traversal of line 91.

\* graph.reverse(copy=False): a view with every edge turned round; the graph
\* itself is not touched.
reverse(g) == [nodes |-> g.nodes, edges |-> {<<e[2], e[1]>> : e \in g.edges}]

Succs(G, v) == {e[2] : e \in {x \in G.edges : x[1] = v}}

\* networkx's breadth-first search by levels: node -> number of hops.
RECURSIVE bfs_levels(_, _, _, _)
bfs_levels(G, thislevel, seen, level) ==
    IF thislevel = {} THEN [v \in {} |-> 0]
    ELSE LET nextlevel == (UNION {Succs(G, v) : v \in thislevel}) \ seen
         IN  [v \in thislevel |-> level]
                 @@ bfs_levels(G, nextlevel, seen \cup nextlevel, level + 1)

single_source_shortest_path_length(G, source) ==
    bfs_levels(G, {source}, {source}, 0)

\* The nodes at the greatest distance: the dict lists its keys in order of
\* distance, so its last key is one of these.
FarthestKeys(distances) ==
    {v \in DOMAIN distances :
        \A w \in DOMAIN distances : distances[w] <= distances[v]}

\* Line 99, list(distances.keys())[:-1]: every key but the last.  The order
\* of the keys inside one level is the traversal's own (it follows the order
\* in which edges were inserted), so which node of the last level comes last
\* is left open: lastKey[target] is any of them.
ancestors_parents_only(g, target) ==
    {target} \cup (Succs(reverse(g), target) \ {ROOT})

ancestors(g, target) ==
    DOMAIN single_source_shortest_path_length(reverse(g), target)
        \ {lastKey[target]}

----------------------------------------------------------------------------
\* fill_ancestors (lines 68-102).

Outcome(kind, m, num, den) == [kind |-> kind, m |-> m, num |-> num, den |-> den]
Returned(m) == Outcome("matrix", m, 0, 1)
IndexError(m) == Outcome("IndexError", m, 0, 1)

\* Line 100: y_[rows, ancestor columns] = 1.
MarkOverwrite(y_, ix_rows, cols) ==
    [r \in Rows |-> [c \in Cols(y_) |->
        IF r \in ix_rows THEN (IF c \in cols THEN 1 ELSE 0) ELSE y_[r][c]]]

Mark(y_, ix_rows, cols) ==
    [r \in Rows |-> [c \in Cols(y_) |->
        IF r \in ix_rows /\ c \in cols THEN 1 ELSE y_[r][c]]]

\* The loop of lines 92-100 from the i-th node on.  y is the caller's matrix
\* and y_ the one written; with copy=False they are the same array, so the
\* read of line 97 sees what earlier targets wrote.  On an exception the
\* outcome carries y_ as it stood.
RECURSIVE fill_loop_skip(_, _, _, _, _)
fill_loop_skip(y, y_, g, i, copy) ==
    IF i > Len(g.nodes) THEN Returned(y_)
    ELSE LET target == g.nodes[i]
             src == IF copy THEN y ELSE y_
         IN  IF target = ROOT \/ target \notin Cols(src)
             THEN fill_loop_skip(y, y_, g, i + 1, copy)
             ELSE LET ix_rows == {r \in Rows : src[r][target] > 0}
                      anc == ancestors(g, target)
                  IN  IF ROOT \in anc THEN IndexError(y_)
                      ELSE fill_loop_skip(y, Mark(y_, ix_rows, anc \cap Cols(y_)),
                                          g, i + 1, copy)

RECURSIVE fill_loop(_, _, _, _, _)
fill_loop(y, y_, g, i, copy) ==
    IF i > Len(g.nodes) THEN Returned(y_)
    ELSE LET target == g.nodes[i]
             src == IF copy THEN y ELSE y_
         IN  IF target = ROOT THEN fill_loop(y, y_, g, i + 1, copy)
             ELSE IF target \notin Cols(src) THEN IndexError(y_)
             ELSE LET ix_rows == {r \in Rows : src[r][target] > 0}
                      anc == ancestors(g, target)
                  IN  IF ROOT \in anc THEN IndexError(y_)
                      ELSE IF ix_rows # {} /\ ~(anc \subseteq Cols(y_))
                           THEN IndexError(y_)
                      ELSE fill_loop(y, Mark(y_, ix_rows, anc), g, i + 1, copy)

fill_ancestors(y, g, copy) == fill_loop(y, y, g, 1, copy)

\* Line 90: what the caller's matrix holds after the call.
CallerMatrixAliased(y, out, copy) == out.m

CallerMatrixAfter(y, out, copy) == IF copy THEN y ELSE out.m

----------------------------------------------------------------------------
\* Numbers.  The scores are Python floats; the model keeps them as exact
\* fractions in lowest terms (rounding is not modelled).

RECURSIVE GCD(_, _)
GCD(a, b) == IF b = 0 THEN a ELSE GCD(b, a % b)

Frac(n, d) == LET g == GCD(n, d) IN [num |-> n \div g, den |-> d \div g]
Value(q) == Outcome("value", <<>>, q.num, q.den)
ZeroDivisionError == Outcome("ZeroDivisionError", <<>>, 0, 1)
IsValue(out) == out.kind = "value"
IsError(out) == out.kind \in {"IndexError", "ZeroDivisionError"}
Raised(out) == Outcome(out.kind, <<>>, 0, 1)
FracOf(out) == [num |-> out.num, den |-> out.den]

Mul(p, q) == Frac(p.num * q.num, p.den * q.den)
Add(p, q) == Frac(p.num * q.den + q.num * p.den, p.den * q.den)
Less(p, q) == p.num * q.den < q.num * p.den
One == [num |-> 1, den |-> 1]

\* a / b on Python numbers: division by zero raises.
TrueDivideMasked(p, q) ==
    IF q.num = 0 THEN Value(Frac(0, 1))
    ELSE Value(Frac(p.num * q.den, p.den * q.num))

TrueDivide(p, q) ==
    IF q.num = 0 THEN ZeroDivisionError
    ELSE Value(Frac(p.num * q.den, p.den * q.num))

----------------------------------------------------------------------------
\* h_precision_score (lines 139-147) and h_recall_score (lines 184-192).

\* Lines 142-144: the positions nonzero in both filled matrices.
true_positives(y_true_, y_pred_) ==
    Cardinality({rc \in Rows \X Cols(y_true_) :
        y_true_[rc[1]][rc[2]] # 0 /\ y_pred_[rc[1]][rc[2]] # 0})

h_precision_score(yt, yp, class_hierarchy) ==
    LET ft == fill_ancestors(yt, class_hierarchy, TRUE)
        fp == fill_ancestors(yp, class_hierarchy, TRUE)
    IN  IF IsError(ft) THEN Raised(ft)
        ELSE IF IsError(fp) THEN Raised(fp)
        ELSE LET all_results == count_nonzero(fp.m)
             IN  TrueDivide(Frac(true_positives(ft.m, fp.m), 1),
                            Frac(all_results, 1))

h_recall_score(yt, yp, class_hierarchy) ==
    LET ft == fill_ancestors(yt, class_hierarchy, TRUE)
        fp == fill_ancestors(yp, class_hierarchy, TRUE)
    IN  IF IsError(ft) THEN Raised(ft)
        ELSE IF IsError(fp) THEN Raised(fp)
        ELSE LET all_positives == count_nonzero(ft.m)
             IN  TrueDivide(Frac(true_positives(ft.m, fp.m), 1),
                            Frac(all_positives, 1))

----------------------------------------------------------------------------
\* h_fbeta_score (lines 232-234).

\* Line 234: (1. + beta ** 2.) * hP * hR / (beta ** 2. * hP + hR).
FBetaSwapped(hP, hR, beta) ==
    LET b2 == Mul(beta, beta)
    IN  TrueDivide(Mul(Mul(Add(One, b2), hP), hR), Add(Mul(b2, hR), hP))

FBeta(hP, hR, beta) ==
    LET b2 == Mul(beta, beta)
    IN  TrueDivide(Mul(Mul(Add(One, b2), hP), hR), Add(Mul(b2, hP), hR))

h_fbeta_score(yt, yp, class_hierarchy, beta) ==
    LET hP == h_precision_score(yt, yp, class_hierarchy)
        hR == h_recall_score(yt, yp, class_hierarchy)
    IN  IF IsError(hP) THEN hP
        ELSE IF IsError(hR) THEN hR
        ELSE FBeta(FracOf(hP), FracOf(hR), beta)

\* The values of beta tried: the positive fractions n/d with n, d <= MaxBeta.
Betas == {Frac(n, d) : n \in 1 .. MaxBeta, d \in 1 .. MaxBeta}

----------------------------------------------------------------------------
\* Inputs.

PossibleEdges == {e \in AllNodes \X Nodes : e[1] # e[2]}

ReachUp(E, v) ==
    DOMAIN single_source_shortest_path_length(
               reverse([nodes |-> <<>>, edges |-> E]), v)

\* A rooted hierarchy (tree or DAG): every node reaches ROOT by parent edges
\* and no node is its own ancestor.
IsHierarchy(E) ==
    \A v \in Nodes :
        /\ ROOT \in ReachUp(E, v)
        /\ \A e \in E : e[2] = v => v \notin ReachUp(E, e[1])

Hierarchies == {E \in SUBSET PossibleEdges : IsHierarchy(E)}

NodeOrders ==
    {s \in [1 .. (NumNodes + 1) -> AllNodes] :
        \A i, j \in 1 .. (NumNodes + 1) : i # j => s[i] # s[j]}

RootFirst == [i \in 1 .. (NumNodes + 1) |-> IF i = 1 THEN ROOT ELSE i - 2]

NoCall == [op |-> "none", copy |-> TRUE, beta |-> One,
           y0 |-> <<>>, p0 |-> <<>>, out |-> Outcome("none", <<>>, 0, 1)]

\* The last keys the traversal can produce for the hierarchy with edges E.
LastKeys(E) ==
    {lk \in [Nodes -> AllNodes] :
        \A t \in Nodes :
            lk[t] \in FarthestKeys(
                single_source_shortest_path_length(
                    reverse([nodes |-> <<>>, edges |-> E]), t))}

InitGraph(orders) ==
    /\ \E E \in Hierarchies :
          /\ lastKey \in LastKeys(E)
          /\ \E o \in orders : graph = [nodes |-> o, edges |-> E]
    /\ ret = NoCall

\* Direct fill_ancestors calls on one matrix, every node order.
InitFill ==
    /\ InitGraph(NodeOrders)
    /\ y_true \in Matrices(NumNodes)
    /\ y_pred = y_true

\* The metrics on every pair of matrices.
InitScore ==
    /\ InitGraph({RootFirst})
    /\ y_true \in Matrices(NumNodes)
    /\ y_pred \in Matrices(NumNodes)

\* Matrices with one column too few or one too many.
InitShape ==
    /\ InitGraph({RootFirst})
    /\ y_true \in Matrices(NumNodes - 1) \cup Matrices(NumNodes + 1)
    /\ y_pred = y_true

----------------------------------------------------------------------------
\* Calls.  A behaviour is one call on the arguments supplied: nothing is kept
\* from one call to the next, and a call on a matrix that an earlier in-place
\* fill has written starts from the initial state that holds that matrix.

Call(op, copy, beta, out) ==
    [op |-> op, copy |-> copy, beta |-> beta,
     y0 |-> y_true, p0 |-> y_pred, out |-> out]

CallFillAncestors ==
    /\ ret.op = "none"
    /\ \E copy \in BOOLEAN :
        LET out == fill_ancestors(y_true, graph, copy)
        IN  /\ ret' = Call("fill", copy, One, out)
            /\ y_true' = CallerMatrixAfter(y_true, out, copy)
            /\ UNCHANGED <<graph, lastKey, y_pred>>

\* The metrics fill with the default copy=True (lines 139-140, 184-185).
AfterMetric ==
    /\ y_true' = CallerMatrixAfter(y_true, fill_ancestors(y_true, graph, TRUE), TRUE)
    /\ y_pred' = CallerMatrixAfter(y_pred, fill_ancestors(y_pred, graph, TRUE), TRUE)
    /\ UNCHANGED <<graph, lastKey>>

CallPrecision ==
    /\ ret.op = "none"
    /\ ret' = Call("precision", TRUE, One, h_precision_score(y_true, y_pred, graph))
    /\ AfterMetric

CallRecall ==
    /\ ret.op = "none"
    /\ ret' = Call("recall", TRUE, One, h_recall_score(y_true, y_pred, graph))
    /\ AfterMetric

CallFBeta ==
    /\ ret.op = "none"
    /\ \E beta \in Betas :
        /\ ret' = Call("fbeta", TRUE, beta, h_fbeta_score(y_true, y_pred, graph, beta))
        /\ AfterMetric

NextFill == CallFillAncestors

Next ==
    \/ CallFillAncestors
    \/ CallPrecision
    \/ CallRecall
    \/ CallFBeta

SpecFill == InitFill /\ [][NextFill]_vars
SpecScore == InitScore /\ [][Next]_vars
SpecShape == InitShape /\ [][NextFill]_vars

----------------------------------------------------------------------------
\* What the specification says of a hierarchy, stated on the edge set alone.

E0 == graph.edges

RECURSIVE UpClosure(_, _)
UpClosure(E, S) ==
    LET P == {e[1] : e \in {x \in E : x[2] \in S}} \ {ROOT}
    IN  IF P \subseteq S THEN S ELSE UpClosure(E, S \cup P)

\* A node together with all its ancestors, ROOT excluded.
AncestorSet(E, c) == UpClosure(E, {c})
IsDescendant(E, d, c) == d # c /\ c \in AncestorSet(E, d)
IsTree(E) == \A v \in Nodes : Cardinality({e \in E : e[2] = v}) = 1

\* The ancestor-filled matrix of the specification.
Filled(y, E) ==
    [r \in Rows |-> [c \in Cols(y) |->
        IF \E d \in Cols(y) \cap Nodes : y[r][d] = 1 /\ c \in AncestorSet(E, d)
        THEN 1 ELSE y[r][c]]]

Distances(t) == single_source_shortest_path_length(reverse(graph), t)
SameResult(a, b) == a.kind = b.kind /\ (a.kind = "matrix" => a.m = b.m)
Position(n) == CHOOSE i \in 1 .. Len(graph.nodes) : graph.nodes[i] = n

----------------------------------------------------------------------------
\* C1: on every tree or DAG hierarchy, fill_ancestors returns a matrix with a
\* 1 wherever y had a 1 at that column or at one of its descendants; the
\* result is element-wise >= y.
C1_FillMarksAncestors ==
    ret.op = "fill" =>
        /\ ret.out.kind = "matrix"
        /\ \A r \in Rows : \A c \in Nodes :
              ( \/ ret.y0[r][c] = 1
                \/ \E d \in Nodes : IsDescendant(E0, d, c) /\ ret.y0[r][d] = 1 )
              => ret.out.m[r][c] = 1
        /\ \A r \in Rows : \A c \in Nodes : ret.out.m[r][c] >= ret.y0[r][c]

\* C2: for every non-root target the key that line 99 drops is ROOT (ROOT
\* being the one node at the greatest distance), so the columns marked are
\* exactly the target and all its ancestors: ROOT is never a column index and
\* no ancestor is dropped.
C2_RootIsTheDroppedKey ==
    ret.op = "fill" =>
        \A target \in Nodes :
            /\ lastKey[target] = ROOT
            /\ ROOT \notin ancestors(graph, target)
            /\ ancestors(graph, target) = AncestorSet(E0, target)

\* C3: filling a filled matrix changes nothing: a second call on the matrix a
\* call returned returns that same matrix, with either value of copy.
C3_Idempotent ==
    (ret.op = "fill" /\ ret.out.kind = "matrix") =>
        \A copy \in BOOLEAN :
            LET again == fill_ancestors(ret.out.m, graph, copy)
            IN  again.kind = "matrix" /\ again.m = ret.out.m

C3_FillAddedAncestors ==
    /\ ret.op = "fill"
    /\ ret.out.kind = "matrix"
    /\ \E r \in Rows : \E c \in Nodes : ret.y0[r][c] = 0 /\ ret.out.m[r][c] = 1
    /\ \E r \in Rows : \E c \in Nodes : ret.out.m[r][c] = 0

\* C10: the outcome of fill_ancestors is the same in place (copy=False) as on
\* a copy (copy=True), and the same for every order of the nodes.
C10_OrderAndCopyIndependent ==
    ret.op = "fill" =>
        /\ SameResult(fill_ancestors(ret.y0, graph, TRUE), ret.out)
        /\ SameResult(fill_ancestors(ret.y0, graph, FALSE), ret.out)
        /\ SameResult(fill_ancestors(ret.y0, [graph EXCEPT !.nodes = RootFirst], TRUE),
                      ret.out)

\* An in-place call in which a child, positive in y, comes before its parent,
\* not positive in y: the parent's row set is read after the child wrote it.
C10_InPlaceReadsWrittenRow ==
    /\ ret.op = "fill"
    /\ ~ret.copy
    /\ ret.out.kind = "matrix"
    /\ \E e \in E0 : \E r \in Rows :
          /\ e[1] # ROOT
          /\ Position(e[2]) < Position(e[1])
          /\ ret.y0[r][e[2]] = 1
          /\ ret.y0[r][e[1]] = 0
          /\ \E a \in Nodes : a # e[1] /\ IsDescendant(E0, e[1], a)

----------------------------------------------------------------------------
\* The counts of the metrics.

Metrics == {"precision", "recall", "fbeta"}
BothNonzero(a, b) ==
    Cardinality({rc \in Rows \X Cols(a) : a[rc[1]][rc[2]] # 0 /\ b[rc[1]][rc[2]] # 0})

\* On the matrices fill_ancestors returns for the arguments of the last call.
FilledTrue == fill_ancestors(ret.y0, graph, TRUE)
FilledPred == fill_ancestors(ret.p0, graph, TRUE)
BothFilled == FilledTrue.kind = "matrix" /\ FilledPred.kind = "matrix"
TP == BothNonzero(FilledTrue.m, FilledPred.m)
AllResults == count_nonzero(FilledPred.m)
AllPositives == count_nonzero(FilledTrue.m)

\* On the ancestor-filled matrices of the specification.
SpecTP == BothNonzero(Filled(ret.y0, E0), Filled(ret.p0, E0))
SpecAllResults == count_nonzero(Filled(ret.p0, E0))
SpecAllPositives == count_nonzero(Filled(ret.y0, E0))
Quotient(n, d) == IF d = 0 THEN ZeroDivisionError ELSE Value(Frac(n, d))

\* C4: a fill with copy=True leaves the caller's matrix as it was, the three
\* metrics leave y_true and y_pred as they were, and no call changes the
\* graph (nodes, edges, their direction); only an in-place fill writes, and
\* only to the matrix it was given.
C4_Frame ==
    [][ /\ graph' = graph
        /\ y_pred' = y_pred
        /\ (ret'.op = "fill" /\ ret'.copy) => y_true' = y_true
        /\ ret'.op \in Metrics => y_true' = y_true
      ]_vars

C4_CopyReturnedFilledMatrix ==
    /\ ret.op = "fill"
    /\ ret.copy
    /\ ret.out.kind = "matrix"
    /\ ret.out.m # y_true
    /\ y_true = ret.y0

\* C5: on every valid hierarchy h_precision_score returns true_positives over
\* the nonzero count of the filled predicted matrix and h_recall_score
\* true_positives over that of the filled true matrix (division by zero
\* raising), with 0 <= true_positives <= denominator.
C5_PrecisionRecallValues ==
    /\ ret.op = "precision" =>
          /\ ret.out = Quotient(SpecTP, SpecAllResults)
          /\ SpecTP <= SpecAllResults
    /\ ret.op = "recall" =>
          /\ ret.out = Quotient(SpecTP, SpecAllPositives)
          /\ SpecTP <= SpecAllPositives

\* C6: a zero denominator raises ZeroDivisionError and is never returned as a
\* number: precision when the filled predicted matrix has no nonzero entry,
\* recall when the filled true matrix has none, F-beta in both cases and when
\* hP and hR are both zero; the inputs are as they were.
C6_ZeroDenominatorRaises ==
    (ret.op \in Metrics /\ BothFilled) =>
        /\ (ret.op = "precision" /\ AllResults = 0)
              => ret.out.kind = "ZeroDivisionError"
        /\ (ret.op = "recall" /\ AllPositives = 0)
              => ret.out.kind = "ZeroDivisionError"
        /\ (ret.op = "fbeta" /\ (AllResults = 0 \/ AllPositives = 0 \/ TP = 0))
              => ret.out.kind = "ZeroDivisionError"
        /\ ret.out.kind = "ZeroDivisionError"
              => (y_true = ret.y0 /\ y_pred = ret.p0)

\* Root -> A -> B, Root -> C with true {B} and predicted {C}: hP = hR = 0 and
\* h_fbeta_score raised.
C6_DisjointSetsRaise ==
    /\ ret.op = "fbeta"
    /\ ret.out.kind = "ZeroDivisionError"
    /\ E0 = {<<ROOT, 0>>, <<0, 1>>, <<ROOT, 2>>}
    /\ \A c \in Nodes : ret.y0[1][c] = (IF c = 1 THEN 1 ELSE 0)
    /\ \A c \in Nodes : ret.p0[1][c] = (IF c = 2 THEN 1 ELSE 0)
    /\ h_precision_score(ret.y0, ret.p0, graph) = Value(Frac(0, 1))
    /\ h_recall_score(ret.y0, ret.p0, graph) = Value(Frac(0, 1))

\* C8: when every predicted label of every sample is a true label of the
\* sample or an ancestor of one, and something is predicted, precision is 1
\* and recall is the filled predicted count over the filled true count; with
\* y_pred = y_true all three scores are 1.
PredictedAreCredited ==
    /\ count_nonzero(ret.p0) > 0
    /\ \A r \in Rows : \A c \in Nodes :
          ret.p0[r][c] = 1 =>
              \E d \in Nodes : ret.y0[r][d] = 1 /\ c \in AncestorSet(E0, d)

C8_AncestorCredit ==
    (ret.op \in Metrics /\ PredictedAreCredited) =>
        /\ ret.op = "precision" => ret.out = Value(One)
        /\ ret.op = "recall" =>
              ret.out = Quotient(SpecAllResults, SpecAllPositives)
        /\ (ret.op = "fbeta" /\ ret.beta = One /\ ret.p0 = ret.y0)
              => ret.out = Value(One)

\* C9: with hP and hR the precision and recall of the same inputs,
\* h_fbeta_score is (1 + beta^2) hP hR / (beta^2 hP + hR), which where it is
\* a number equals (1 + beta^2) tp / (beta^2 all_positives + all_results);
\* when hP # hR it lies strictly between them for every beta > 0, and a
\* larger beta gives a score nearer hR, a smaller one a score nearer hP.
HP == h_precision_score(ret.y0, ret.p0, graph)
HR == h_recall_score(ret.y0, ret.p0, graph)
F(b) == h_fbeta_score(ret.y0, ret.p0, graph, b)
Between(x, p, q) == (Less(p, x) /\ Less(x, q)) \/ (Less(q, x) /\ Less(x, p))

C9_FBetaFormula ==
    (ret.op = "fbeta" /\ IsValue(HP) /\ IsValue(HR)) =>
        /\ IsValue(ret.out) =>
              FracOf(ret.out) =
                  Frac((ret.beta.den * ret.beta.den + ret.beta.num * ret.beta.num) * TP,
                       ret.beta.num * ret.beta.num * AllPositives
                           + ret.beta.den * ret.beta.den * AllResults)
        /\ IsValue(ret.out) <=> TP > 0
        /\ FracOf(HP) # FracOf(HR) =>
              /\ \A b \in Betas :
                    IsValue(F(b)) /\ Between(FracOf(F(b)), FracOf(HP), FracOf(HR))
              /\ \A b1, b2 \in Betas :
                    Less(b1, b2) =>
                        /\ Less(FracOf(HP), FracOf(HR))
                              => Less(FracOf(F(b1)), FracOf(F(b2)))
                        /\ Less(FracOf(HR), FracOf(HP))
                              => Less(FracOf(F(b2)), FracOf(F(b1)))

\* Root -> A -> B with true {B} and predicted {A}: hP = 1, hR = 1/2, hF1 = 2/3.
C9_AncestorCreditCase ==
    /\ ret.op = "fbeta"
    /\ ret.beta = One
    /\ HP = Value(One)
    /\ HR = Value(Frac(1, 2))
    /\ ret.out = Value(Frac(2, 3))
    /\ {<<ROOT, 0>>, <<0, 1>>} \subseteq E0
    /\ ret.y0[1][1] = 1 /\ ret.p0[1][0] = 1 /\ ret.p0[1][1] = 0

----------------------------------------------------------------------------
\* Matrices whose columns are not the graph's non-root nodes.

Narrowed(y) == [r \in Rows |-> [c \in Nodes |-> y[r][c]]]

\* C7 as stated: fill_ancestors raises an out-of-range error whenever the
\* number of columns differs from the number of non-root nodes, too few or
\* too many.
C7_AnyMismatchRaises ==
    (ret.op = "fill" /\ Cardinality(Cols(ret.y0)) # NumNodes)
        => ret.out.kind = "IndexError"

\* C7 as amended: fill_ancestors raises IndexError, and returns no matrix,
\* whenever some non-root node id has no column (so with too few columns);
\* surplus columns are not rejected: the call ends as it does on the matrix
\* without them and returns them as they were.
C7_MissingColumnRaises ==
    ret.op = "fill" =>
        /\ (\E n \in Nodes : n \notin Cols(ret.y0))
              => ret.out.kind = "IndexError"
        /\ (Nodes \subseteq Cols(ret.y0)) =>
              LET narrow == fill_ancestors(Narrowed(ret.y0), graph, ret.copy)
              IN  /\ narrow.kind = ret.out.kind
                  /\ ret.out.kind = "matrix" =>
                        \A r \in Rows : \A c \in Cols(ret.y0) :
                            ret.out.m[r][c] =
                                (IF c \in Nodes THEN narrow.m[r][c] ELSE ret.y0[r][c])

\* A call on a tree with one column too few, a label set: the error is the
\* missing column's.
C7_TooFewColumnsRaised ==
    /\ ret.op = "fill"
    /\ Cardinality(Cols(ret.y0)) < NumNodes
    /\ count_nonzero(ret.y0) > 0
    /\ IsTree(E0)
    /\ ret.out.kind = "IndexError"

====
